---- MODULE Spec2Model ----
(***************************************************************************)
(* A model of the chat client of src/tailwind.config.js:                   *)
(*   - the TTS helpers base64ToArrayBuffer, pcmToWav and writeString,      *)
(*   - handleTtsClick, which decodes a TTS response and calls pcmToWav,    *)
(*   - handleSendMessage / postMessageToChat / getGeminiResponse, the      *)
(*     chat turn guarded by the React state isAiProcessing.                *)
(*                                                                         *)
(* JavaScript numbers that may leave the 31-bit range of TLC's integers    *)
(* (sample rates, the byte rate) are kept exactly as two limbs             *)
(* [hi, lo], value hi * 2^16 + lo, with 0 <= lo < 2^16.  Strings whose     *)
(* characters the code inspects are sequences of one-character strings.    *)
(***************************************************************************)
EXTENDS Integers, Sequences, FiniteSets, TLC

VARIABLES
    pcmData,        \* pcmToWav: the caller's sample buffer (Int16Array contents)
    sampleRate,     \* pcmToWav: the caller's sample rate (a number)
    blob,           \* pcmToWav: the value of the last call, NoBlob before it
    callArgs,       \* history: the arguments as they were when the call was made
    firstCall,      \* history: arguments and value of the first call made
    nCalls,         \* history: number of pcmToWav calls made
    ttsPc,          \* handleTtsClick: "idle", "fetching", "done"
    ttsPart,        \* handleTtsClick: the inlineData of the response processed
    ttsPassed,      \* handleTtsClick: the arguments passed to pcmToWav, or NoArgs
    ttsBlob,        \* handleTtsClick: the blob given to audio.src, or NoBlob
    ttsOutcome,     \* handleTtsClick: "none", "played", "invalid", "caught"
    userId,         \* App state userId (None = null)
    nickname,       \* App state nickname (<<>> = null, never a valid nickname)
    tempNickname,   \* App state tempNickname (the nickname input box)
    isAuthReady,    \* App state isAuthReady
    newMessage,     \* App state newMessage (the message input box)
    isAiProcessing, \* App state isAiProcessing
    turns,          \* the handleSendMessage invocations that passed the guard,
                    \* in order of submission: position, reply text, and the
                    \* number of postMessageToChat(.., 'Gemini') calls made
    chat            \* the documents added to the messages collection, in order

vars == <<pcmData, sampleRate, blob, callArgs, firstCall, nCalls,
          ttsPc, ttsPart, ttsPassed, ttsBlob, ttsOutcome,
          userId, nickname, tempNickname, isAuthReady, newMessage,
          isAiProcessing, turns, chat>>

encVars  == <<pcmData, sampleRate, blob, callArgs, firstCall, nCalls>>
ttsVars  == <<ttsPc, ttsPart, ttsPassed, ttsBlob, ttsOutcome>>
chatVars == <<userId, nickname, tempNickname, isAuthReady, newMessage,
              isAiProcessing, turns, chat>>

None == "None"
\* What stands for a buffer whose construction or write threw RangeError (no
\* byte and no sample has this value), and the values standing for "no blob"
\* and for a call that threw instead of returning one.
RangeError == <<-(2^20)>>
NoBlob == [type |-> "none", bytes |-> <<>>]
Thrown == [type |-> "RangeError", bytes |-> <<>>]
NoArgs == [pcmData |-> <<>>, sampleRate |-> [hi |-> 0, lo |-> 0]]
NoCall == [pcmData |-> <<>>, sampleRate |-> [hi |-> 0, lo |-> 0], blob |-> NoBlob]

(***************************************************************************)
(* Bounds of the model.                                                    *)
(***************************************************************************)
MaxSamples == 4
MaxPureSamples == 1
MaxCalls == 3

(***************************************************************************)
(* JavaScript numbers as two limbs.                                        *)
(***************************************************************************)
Two8  == 2^8
Two16 == 2^16

Num(h, l) == [hi |-> h, lo |-> l]
NumOfInt(n) == Num(n \div Two16, n % Two16)
NumTimes(x, k) == Num(x.hi * k + (x.lo * k) \div Two16, (x.lo * k) % Two16)
NumPlus(x, d) == Num(x.hi + (x.lo + d) \div Two16, (x.lo + d) % Two16)
NumLess(x, y) == x.hi < y.hi \/ (x.hi = y.hi /\ x.lo < y.lo)
Zero == Num(0, 0)
Pow2_31 == Num(32768, 0)
Pow2_32 == Num(65536, 0)

\* ToUint32 of the ECMAScript specification: the value modulo 2^32.
ToUint32(x) == Num(x.hi % Two16, x.lo)
\* ToUint16 and ToInt16 on an integer in TLC's range.
ToUint16(n) == n % Two16
ToInt16(n) == IF ToUint16(n) >= 2^15 THEN ToUint16(n) - Two16 ELSE ToUint16(n)

(***************************************************************************)
(* DataView over a zero-filled ArrayBuffer.  A view is the sequence of its *)
(* bytes (byte k of the buffer is view[k + 1]); a write outside the buffer *)
(* throws RangeError, which aborts the caller.                             *)
(***************************************************************************)
ArrayBuffer(len) == [k \in 1..len |-> 0]

setUint8(view, offset, value) ==
    IF view = RangeError \/ offset < 0 \/ offset + 1 > Len(view)
    THEN RangeError
    ELSE [view EXCEPT ![offset + 1] = value % Two8]

\* setUint16(offset, value, true): little-endian.
setUint16(view, offset, value) ==
    IF view = RangeError \/ offset < 0 \/ offset + 2 > Len(view)
    THEN RangeError
    ELSE [view EXCEPT ![offset + 1] = ToUint16(value) % Two8,
                      ![offset + 2] = ToUint16(value) \div Two8]

\* The big-endian write a call without the littleEndian flag would make.
setInt16BigEndian(view, offset, value) ==
    IF view = RangeError \/ offset < 0 \/ offset + 2 > Len(view)
    THEN RangeError
    ELSE [view EXCEPT ![offset + 1] = ToUint16(value) \div Two8,
                      ![offset + 2] = ToUint16(value) % Two8]

\* setInt16(offset, value, true): the two's-complement bits of value, little-endian.
setInt16(view, offset, value) == setUint16(view, offset, value)

\* setUint32(offset, value, true) of a number given as limbs.
setUint32(view, offset, value) ==
    IF view = RangeError \/ offset < 0 \/ offset + 4 > Len(view)
    THEN RangeError
    ELSE LET u == ToUint32(value) IN
         [view EXCEPT ![offset + 1] = u.lo % Two8,
                      ![offset + 2] = u.lo \div Two8,
                      ![offset + 3] = u.hi % Two8,
                      ![offset + 4] = u.hi \div Two8]

\* String.prototype.charCodeAt for the characters the header uses.
charCodeAt(c) ==
    CASE c = "R" -> 82  [] c = "I" -> 73  [] c = "F" -> 70  [] c = "W" -> 87
      [] c = "A" -> 65  [] c = "V" -> 86  [] c = "E" -> 69  [] c = "f" -> 102
      [] c = "m" -> 109 [] c = "t" -> 116 [] c = " " -> 32  [] c = "d" -> 100
      [] c = "a" -> 97

RECURSIVE writeStringFrom(_, _, _, _)
writeStringFrom(view, offset, string, i) ==
    IF i >= Len(string) THEN view
    ELSE writeStringFrom(setUint8(view, offset + i, charCodeAt(string[i + 1])),
                         offset, string, i + 1)

writeString(view, offset, string) == writeStringFrom(view, offset, string, 0)

(***************************************************************************)
(* pcmToWav.  The loop state is the memory the loop can touch: the view    *)
(* being filled and the caller's pcmData.                                  *)
(***************************************************************************)
numChannels == 1
bitsPerSample == 16
HeaderSize == 44

\* The byte rate computed from the bit depth without the division by 8.
byteRateInBits(rate) == NumTimes(rate, numChannels * bitsPerSample)

byteRate(rate) == NumTimes(rate, numChannels * (bitsPerSample \div 8))
blockAlign == numChannels * (bitsPerSample \div 8)

\* A buffer sized in samples instead of bytes.
bufferLengthInSamples(data) == HeaderSize + Len(data)

bufferLength(data) == HeaderSize + Len(data) * 2

\* The size of the whole buffer written where the RIFF chunk size belongs.
fileSizeWholeBuffer(data) == NumOfInt(HeaderSize + Len(data) * 2)

\* The values written at bytes 4 (line 48), 24 (line 60) and 40 (line 70).
fileSize(data) == NumOfInt(36 + Len(data) * 2)

\* A falsy rate replaced by a default, as in (sampleRate || 24000).
sampleRateOrDefault(rate) == IF rate = Zero THEN Num(0, 24000) ELSE rate

sampleRateField(rate) == rate
dataChunkLength(data) == NumOfInt(Len(data) * 2)

writeHeader(view, data, rate) ==
    LET v1  == writeString(view, 0, <<"R", "I", "F", "F">>)
        v2  == setUint32(v1, 4, fileSize(data))
        v3  == writeString(v2, 8, <<"W", "A", "V", "E">>)
        v4  == writeString(v3, 12, <<"f", "m", "t", " ">>)
        v5  == setUint32(v4, 16, NumOfInt(16))
        v6  == setUint16(v5, 20, 1)
        v7  == setUint16(v6, 22, numChannels)
        v8  == setUint32(v7, 24, sampleRateField(rate))
        v9  == setUint32(v8, 28, byteRate(rate))
        v10 == setUint16(v9, 32, blockAlign)
        v11 == setUint16(v10, 34, bitsPerSample)
        v12 == writeString(v11, 36, <<"d", "a", "t", "a">>)
    IN  setUint32(v12, 40, dataChunkLength(data))

\* An iteration that converts the byte order in place, in the caller's array,
\* before writing.
writeSampleInPlace(mem, i, offset) ==
    LET u == ToUint16(mem.pcmData[i + 1])
        swapped == ToInt16((u % Two8) * Two8 + u \div Two8)
    IN  [view |-> setInt16BigEndian(mem.view, offset, swapped),
         pcmData |-> [mem.pcmData EXCEPT ![i + 1] = swapped]]

\* One iteration of the loop of lines 74-77: reads pcmData[i], writes the view.
writeSample(mem, i, offset) ==
    [view |-> setInt16(mem.view, offset, mem.pcmData[i + 1]),
     pcmData |-> mem.pcmData]

RECURSIVE writeSamples(_, _, _)
writeSamples(mem, i, offset) ==
    IF i >= Len(mem.pcmData) THEN mem
    ELSE writeSamples(writeSample(mem, i, offset), i + 1, offset + 2)

\* The value of the call and the caller's buffer after it.  A thrown
\* RangeError is the value Thrown; otherwise the Blob and its type.
pcmToWav(data, rate) ==
    LET buffer == ArrayBuffer(bufferLength(data))
        header == writeHeader(buffer, data, rate)
        mem    == writeSamples([view |-> header, pcmData |-> data], 0, HeaderSize)
    IN  [blob |-> IF mem.view = RangeError THEN Thrown
                  ELSE [type |-> "audio/wav", bytes |-> mem.view],
         pcmData |-> mem.pcmData]

(***************************************************************************)
(* The caller of pcmToWav: arguments and calls.                            *)
(***************************************************************************)
SampleValues == {-32768, -1, 0, 1000, 32767}
PureSampleValues == {-32768, 1000}

SeqsUpTo(S, n) == UNION {[1..k -> S] : k \in 0..n}

Rates == {Zero, Num(0, 1), Num(0, 24000), Num(0, 44100), Num(1, 0),
          Num(32767, 65535), Pow2_31, Num(65535, 65535), Pow2_32,
          Num(65536, 24000)}
PureRates == {Zero, Num(0, 24000), Num(65536, 1)}

CallPcmToWav ==
    /\ blob = NoBlob
    /\ LET r == pcmToWav(pcmData, sampleRate) IN
         /\ blob' = r.blob
         /\ pcmData' = r.pcmData
         /\ firstCall' = IF nCalls = 0
                         THEN [pcmData |-> pcmData, sampleRate |-> sampleRate,
                               blob |-> r.blob]
                         ELSE firstCall
    /\ callArgs' = [pcmData |-> pcmData, sampleRate |-> sampleRate]
    /\ nCalls' = nCalls + 1
    /\ UNCHANGED <<sampleRate, ttsVars, chatVars>>

\* The caller discards the blob and prepares the arguments of another call.
NextArgs(data, rate) ==
    /\ blob # NoBlob
    /\ nCalls < MaxCalls
    /\ pcmData' = data
    /\ sampleRate' = rate
    /\ blob' = NoBlob
    /\ UNCHANGED <<callArgs, firstCall, nCalls, ttsVars, chatVars>>

TtsIdle ==
    /\ ttsPc = "idle"
    /\ ttsPart = [kind |-> "none", data |-> <<"undefined">>, mimeType |-> <<"undefined">>]
    /\ ttsPassed = NoArgs
    /\ ttsBlob = NoBlob /\ ttsOutcome = "none"

ChatIdle ==
    /\ userId = None /\ nickname = <<>> /\ tempNickname = <<>>
    /\ isAuthReady = FALSE /\ newMessage = <<>> /\ isAiProcessing = FALSE
    /\ turns = <<>> /\ chat = <<>>

EncIdle ==
    /\ pcmData = <<>> /\ sampleRate = Zero /\ blob = NoBlob
    /\ callArgs = NoArgs /\ firstCall = NoCall /\ nCalls = 0

InitEncoder ==
    /\ pcmData \in SeqsUpTo(SampleValues, MaxSamples)
    /\ sampleRate \in Rates
    /\ blob = NoBlob /\ callArgs = NoArgs /\ firstCall = NoCall /\ nCalls = 0
    /\ TtsIdle /\ ChatIdle

NextEncoder == CallPcmToWav

SpecEncoder == InitEncoder /\ [][NextEncoder]_vars

InitPure ==
    /\ pcmData \in SeqsUpTo(PureSampleValues, MaxPureSamples)
    /\ sampleRate \in PureRates
    /\ blob = NoBlob /\ callArgs = NoArgs /\ firstCall = NoCall /\ nCalls = 0
    /\ TtsIdle /\ ChatIdle

NextPure ==
    \/ CallPcmToWav
    \/ /\ blob # NoBlob
       /\ \E data \in SeqsUpTo(PureSampleValues, MaxPureSamples), rate \in PureRates :
             NextArgs(data, rate)

SpecPure == InitPure /\ [][NextPure]_vars

(***************************************************************************)
(* Strings of handleTtsClick: sequences of one-character strings.          *)
(***************************************************************************)
Undefined == <<"undefined">>
Truthy(string) == string # Undefined /\ string # <<>>

startsWith(string, prefix) ==
    /\ Len(string) >= Len(prefix)
    /\ SubSeq(string, 1, Len(prefix)) = prefix

Digits == <<"0", "1", "2", "3", "4", "5", "6", "7", "8", "9">>
IsDigit(c) == \E d \in 1..10 : Digits[d] = c
DigitValue(c) == (CHOOSE d \in 1..10 : Digits[d] = c) - 1

RECURSIVE DigitRun(_, _)
DigitRun(string, i) ==
    IF i > Len(string) \/ ~IsDigit(string[i]) THEN <<>>
    ELSE <<string[i]>> \o DigitRun(string, i + 1)

RateEq == <<"r", "a", "t", "e", "=">>
AudioL16 == <<"a", "u", "d", "i", "o", "/", "L", "1", "6">>

\* The places where /rate=(\d+)/ can match: "rate=" followed by a digit.
MatchPositions(string) ==
    {p \in 1..Len(string) :
        /\ p + 5 <= Len(string)
        /\ SubSeq(string, p, p + 4) = RateEq
        /\ IsDigit(string[p + 5])}

Minimum(S) == CHOOSE x \in S : \A y \in S : x <= y

\* mimeType.match(/rate=(\d+)/): group 1 of the leftmost match, the longest
\* run of digits after "rate="; <<>> stands for null (group 1 is never empty).
rateMatch(string) ==
    IF MatchPositions(string) = {} THEN <<>>
    ELSE DigitRun(string, Minimum(MatchPositions(string)) + 5)

RECURSIVE parseIntFrom(_, _, _)
parseIntFrom(digits, i, acc) ==
    IF i > Len(digits) THEN acc
    ELSE parseIntFrom(digits, i + 1,
                      NumPlus(NumTimes(acc, 10), DigitValue(digits[i])))

\* parseInt(digits, 10) of a non-empty run of decimal digits.
parseInt(digits) == parseIntFrom(digits, 1, Zero)

DefaultSampleRate == 24000

\* Lines 282-283.
sampleRateOf(mimeType) ==
    IF rateMatch(mimeType) # <<>> THEN parseInt(rateMatch(mimeType))
    ELSE NumOfInt(DefaultSampleRate)

\* A guard without the MIME type test.
hasAudioAnyMime(audioData, mimeType) == Truthy(audioData)

\* The condition of line 280.
hasAudio(audioData, mimeType) ==
    Truthy(audioData) /\ Truthy(mimeType) /\ startsWith(mimeType, AudioL16)

(***************************************************************************)
(* atob (the forgiving-base64 decode of the HTML standard) and             *)
(* base64ToArrayBuffer; DOMException stands for the exception atob throws. *)
(***************************************************************************)
Base64Alphabet ==
    <<"A", "B", "C", "D", "E", "F", "G", "H", "I", "J", "K", "L", "M", "N", "O", "P",
      "Q", "R", "S", "T", "U", "V", "W", "X", "Y", "Z", "a", "b", "c", "d", "e", "f",
      "g", "h", "i", "j", "k", "l", "m", "n", "o", "p", "q", "r", "s", "t", "u", "v",
      "w", "x", "y", "z", "0", "1", "2", "3", "4", "5", "6", "7", "8", "9", "+", "/">>
IsBase64(c) == \E k \in 1..64 : Base64Alphabet[k] = c
Sextet(c) == (CHOOSE k \in 1..64 : Base64Alphabet[k] = c) - 1
IsSpace(c) == c = " "

DOMException == <<-(2^20) - 1>>

StripPadding(string) ==
    IF Len(string) % 4 = 0 /\ Len(string) > 0 /\ string[Len(string)] = "="
    THEN IF string[Len(string) - 1] = "="
         THEN SubSeq(string, 1, Len(string) - 2)
         ELSE SubSeq(string, 1, Len(string) - 1)
    ELSE string

RECURSIVE DecodeSextets(_, _)
DecodeSextets(string, i) ==
    LET left == Len(string) - i + 1
        s(k) == Sextet(string[i + k])
    IN  IF left >= 4
        THEN <<s(0) * 4 + s(1) \div 16,
               (s(1) % 16) * 16 + s(2) \div 4,
               (s(2) % 4) * 64 + s(3)>> \o DecodeSextets(string, i + 4)
        ELSE IF left = 3
        THEN <<s(0) * 4 + s(1) \div 16, (s(1) % 16) * 16 + s(2) \div 4>>
        ELSE IF left = 2
        THEN <<s(0) * 4 + s(1) \div 16>>
        ELSE <<>>

atob(string) ==
    LET data == StripPadding(SelectSeq(string, LAMBDA c : ~IsSpace(c)))
    IN  IF Len(data) % 4 = 1 \/ \E k \in 1..Len(data) : ~IsBase64(data[k])
        THEN DOMException
        ELSE DecodeSextets(data, 1)

\* The bytes of the ArrayBuffer returned, or DOMException.
base64ToArrayBuffer(base64) == atob(base64)

\* new Int16Array(buffer): RangeError when the byte length is odd; the
\* elements are read in the platform's byte order, little-endian.
Int16Array(bytes) ==
    IF Len(bytes) % 2 # 0 THEN RangeError
    ELSE [i \in 1..(Len(bytes) \div 2) |->
            ToInt16(bytes[2 * i - 1] + Two8 * bytes[2 * i])]

(***************************************************************************)
(* handleTtsClick.                                                         *)
(***************************************************************************)
NoPart == [kind |-> "none", data |-> Undefined, mimeType |-> Undefined]

\* What the handler does with the response, from line 271 on.
handleTtsResponse(resp) ==
    LET caught == [outcome |-> "caught", passed |-> NoArgs, blob |-> NoBlob]
    IN  IF resp.kind # "ok" THEN caught
        ELSE IF ~hasAudio(resp.data, resp.mimeType)
        THEN [outcome |-> "invalid", passed |-> NoArgs, blob |-> NoBlob]
        ELSE LET rate  == sampleRateOf(resp.mimeType)
                 bytes == base64ToArrayBuffer(resp.data)
                 pcm16 == IF bytes = DOMException THEN RangeError
                          ELSE Int16Array(bytes)
             IN  IF bytes = DOMException \/ pcm16 = RangeError THEN caught
                 ELSE LET wav == pcmToWav(pcm16, rate).blob IN
                      IF wav = Thrown THEN caught
                      ELSE [outcome |-> "played",
                            passed |-> [pcmData |-> pcm16, sampleRate |-> rate],
                            blob |-> wav]

MaxBase64Length == 3
MaxParams == 2

Base64Chars == {"A", "/", "=", "!"}
AudioDatas == {Undefined} \cup SeqsUpTo(Base64Chars, MaxBase64Length)

MimeHeads == {AudioL16, <<"a", "u", "d", "i", "o", "/", "w", "a", "v">>, <<"a", "u", "d", "i", "o", "/", "L", "1">>}
MimeParams == <<<<";", "c", "o", "d", "e", "c", "=", "p", "c", "m">>,
                <<";", "r", "a", "t", "e", "=", "2", "4", "0", "0", "0">>,
                <<";", "r", "a", "t", "e", "=", "0">>,
                <<";", "r", "a", "t", "e", "=", "-", "8", "0", "0", "0">>,
                <<";", "b", "i", "t", "r", "a", "t", "e", "=", "1", "6">>,
                <<";", "r", "a", "t", "e", "=", "4", "2", "9", "4", "9", "6", "7", "2", "9", "6">>>>

RECURSIVE Concat(_)
Concat(strings) ==
    IF strings = <<>> THEN <<>> ELSE Head(strings) \o Concat(Tail(strings))

MimeTails ==
    {Concat([k \in 1..Len(choice) |-> MimeParams[choice[k]]]) :
        choice \in SeqsUpTo(1..Len(MimeParams), MaxParams)}
MimeTypes == {Undefined, <<>>} \cup {head \o tail : head \in MimeHeads, tail \in MimeTails}

Responses ==
    {[kind |-> k, data |-> Undefined, mimeType |-> Undefined] :
        k \in {"networkError", "notOk", "badJson"}}
    \cup [kind : {"ok"}, data : AudioDatas, mimeType : MimeTypes]

\* Lines 246-269: the click creates the Audio element and issues the fetch.
handleTtsClick ==
    /\ ttsPc \in {"idle", "done"}
    /\ ttsPc' = "fetching"
    /\ ttsPart' = NoPart
    /\ ttsPassed' = NoArgs
    /\ ttsBlob' = NoBlob
    /\ ttsOutcome' = "none"
    /\ UNCHANGED <<encVars, chatVars>>

\* Lines 265-298: the fetch settles and the rest of the handler runs.
TtsFetchSettles(resp) ==
    /\ ttsPc = "fetching"
    /\ ttsPc' = "done"
    /\ ttsPart' = resp
    /\ LET r == handleTtsResponse(resp) IN
         /\ ttsOutcome' = r.outcome
         /\ ttsPassed' = r.passed
         /\ ttsBlob' = r.blob
    /\ UNCHANGED <<encVars, chatVars>>

InitTts == EncIdle /\ TtsIdle /\ ChatIdle

NextTts ==
    \/ handleTtsClick
    \/ ttsPc = "fetching" /\ \E resp \in Responses : TtsFetchSettles(resp)

SpecTts == InitTts /\ [][NextTts]_vars

(***************************************************************************)
(* The chat turn: handleSetNickname, handleSendMessage, postMessageToChat  *)
(* and getGeminiResponse.  Each await is a step of its own; what runs      *)
(* between two awaits is one action.  postMessageToChat returns early only *)
(* without a Firebase configuration, in which case userId is never set and *)
(* no submission passes the guard, so that branch is not reached.  A       *)
(* handler reads the App state of the latest render, and React renders     *)
(* after every state update before the next event is handled, so the       *)
(* handlers read the variables themselves.  The request payload and the    *)
(* message list rendered from the snapshot listener play no part in the    *)
(* guard and are left out.                                                 *)
(***************************************************************************)
MaxTurns == 2

RECURSIVE trimStart(_)
trimStart(string) ==
    IF string # <<>> /\ IsSpace(Head(string)) THEN trimStart(Tail(string))
    ELSE string

RECURSIVE trimEnd(_)
trimEnd(string) ==
    IF string # <<>> /\ IsSpace(string[Len(string)])
    THEN trimEnd(SubSeq(string, 1, Len(string) - 1))
    ELSE string

trim(string) == trimEnd(trimStart(string))

Uid == "uid1"
Gemini == "Gemini"
Texts == {<<>>, <<" ">>, <<"h", "i">>, <<" ", "y", "o", " ">>}
Nicknames == {<<>>, <<"a">>, <<" ", "a", " ">>, <<"a", "l">>}

\* Lines 123-140: the auth listener; without a user it only starts a sign-in.
onAuthStateChanged(user) ==
    /\ IF user # None
       THEN userId' = user /\ isAuthReady' = TRUE
       ELSE UNCHANGED <<userId, isAuthReady>>
    /\ UNCHANGED <<nickname, tempNickname, newMessage, isAiProcessing, turns, chat>>
    /\ UNCHANGED <<encVars, ttsVars>>

\* Line 333: typing in the nickname box of the login screen.
setTempNickname(value) ==
    /\ nickname = <<>>
    /\ isAuthReady
    /\ tempNickname' = value
    /\ UNCHANGED <<userId, nickname, isAuthReady, newMessage, isAiProcessing, turns, chat>>
    /\ UNCHANGED <<encVars, ttsVars>>

\* Lines 174-181, reached from the login screen (Enter key or the button).
handleSetNickname ==
    /\ nickname = <<>>
    /\ isAuthReady
    /\ nickname' = IF Len(trim(tempNickname)) >= 2 THEN trim(tempNickname) ELSE nickname
    /\ UNCHANGED <<userId, tempNickname, isAuthReady, newMessage, isAiProcessing, turns, chat>>
    /\ UNCHANGED <<encVars, ttsVars>>

\* Lines 429-437: typing in the message box, which is disabled while
\* isAiProcessing is set.
setNewMessage(value) ==
    /\ isAuthReady /\ nickname # <<>> /\ ~isAiProcessing
    /\ newMessage' = value
    /\ UNCHANGED <<userId, nickname, tempNickname, isAuthReady, isAiProcessing, turns, chat>>
    /\ UNCHANGED <<encVars, ttsVars>>

\* Line 441: the submit button is enabled.
SubmitEnabled ==
    isAuthReady /\ nickname # <<>> /\ trim(newMessage) # <<>> /\ ~isAiProcessing

\* Line 305: the handler goes on only when this holds.
PassesGuard ==
    trim(newMessage) # <<>> /\ userId # None /\ nickname # <<>> /\ ~isAiProcessing

Turn(pc, reply, posts) == [pc |-> pc, reply |-> reply, geminiPosts |-> posts]
Unfinished(t) == turns[t].pc # "done"
InGemini(t) == turns[t].pc \in {"fetching", "readingText", "readingJson", "postingReply"}

\* Lines 302-308 and 186-194: the submission passes the guard and the
\* user's message is being added (addDoc pending).
handleSendMessage ==
    /\ SubmitEnabled
    /\ PassesGuard
    /\ Len(turns) < MaxTurns
    /\ turns' = Append(turns, Turn("postingUser", "none", 0))
    /\ UNCHANGED <<userId, nickname, tempNickname, isAuthReady, newMessage, isAiProcessing, chat>>
    /\ UNCHANGED <<encVars, ttsVars>>

\* Lines 194-202, 309-318 and 207-224: addDoc settles (a rejection is caught
\* and logged), the box is cleared, getGeminiResponse sets isAiProcessing and
\* issues its fetch.
UserPostSettles(t, added) ==
    /\ turns[t].pc = "postingUser"
    /\ chat' = IF added THEN Append(chat, [userId |-> userId, text |-> "user"]) ELSE chat
    /\ newMessage' = <<>>
    /\ isAiProcessing' = TRUE
    /\ turns' = [turns EXCEPT ![t].pc = "fetching"]
    /\ UNCHANGED <<userId, nickname, tempNickname, isAuthReady>>
    /\ UNCHANGED <<encVars, ttsVars>>

\* Lines 220-238: the fetch settles.  A rejection goes to the catch block,
\* which posts the error text; otherwise the body is read.
FetchSettles(t, result) ==
    /\ turns[t].pc = "fetching"
    /\ turns' = [turns EXCEPT ![t] =
          CASE result = "rejected" ->
                 Turn("postingReply", "Error contacting AI service.", @.geminiPosts + 1)
            [] result = "notOk" -> Turn("readingText", @.reply, @.geminiPosts)
            [] result = "ok" -> Turn("readingJson", @.reply, @.geminiPosts)]
    /\ UNCHANGED <<userId, nickname, tempNickname, isAuthReady, newMessage, isAiProcessing, chat>>
    /\ UNCHANGED <<encVars, ttsVars>>

\* The text posted once the body has been read (lines 226-238).
ReplyText(pc, result) ==
    IF pc = "readingText" \/ result = "rejected" THEN "Error contacting AI service."
    ELSE IF result = "text" THEN "model text"
    ELSE "Sorry, I couldn't generate a response at this time."

\* Lines 227-238: response.text() or response.json() settles and the reply
\* is posted: the thrown error and a rejected read go to the catch block.
BodySettles(t, result) ==
    /\ turns[t].pc \in {"readingText", "readingJson"}
    /\ turns[t].pc = "readingText" => result \in {"rejected", "text"}
    /\ turns' = [turns EXCEPT ![t] =
          Turn("postingReply", ReplyText(@.pc, result), @.geminiPosts + 1)]
    /\ UNCHANGED <<userId, nickname, tempNickname, isAuthReady, newMessage, isAiProcessing, chat>>
    /\ UNCHANGED <<encVars, ttsVars>>

\* The flag left set when the reply could not be added.
AfterReplyOnlyOnSuccess(added) == IF added THEN FALSE ELSE isAiProcessing

\* Lines 239-241: the finally block.
AfterReply(added) == FALSE

\* Lines 194-202 and 239-241: the reply's addDoc settles (a rejection is
\* caught inside postMessageToChat), then the finally block runs.
ReplyPostSettles(t, added) ==
    /\ turns[t].pc = "postingReply"
    /\ chat' = IF added THEN Append(chat, [userId |-> Gemini, text |-> turns[t].reply])
               ELSE chat
    /\ isAiProcessing' = AfterReply(added)
    /\ turns' = [turns EXCEPT ![t].pc = "done"]
    /\ UNCHANGED <<userId, nickname, tempNickname, isAuthReady, newMessage>>
    /\ UNCHANGED <<encVars, ttsVars>>

InitChat == EncIdle /\ TtsIdle /\ ChatIdle

NextChat ==
    \/ \E user \in {None, Uid} : onAuthStateChanged(user)
    \/ \E value \in Nicknames : setTempNickname(value)
    \/ handleSetNickname
    \/ \E value \in Texts : setNewMessage(value)
    \/ handleSendMessage
    \/ \E t \in 1..Len(turns), added \in BOOLEAN : UserPostSettles(t, added)
    \/ \E t \in 1..Len(turns), result \in {"rejected", "notOk", "ok"} :
          FetchSettles(t, result)
    \/ \E t \in 1..Len(turns), result \in {"rejected", "text", "empty"} :
          BodySettles(t, result)
    \/ \E t \in 1..Len(turns), added \in BOOLEAN : ReplyPostSettles(t, added)

SpecChat == InitChat /\ [][NextChat]_vars

\* Every pending promise settles: the network answers or fails.
FairChat ==
    \A t \in 1..MaxTurns :
        /\ WF_vars(t <= Len(turns) /\ \E added \in BOOLEAN : UserPostSettles(t, added))
        /\ WF_vars(t <= Len(turns) /\ \E r \in {"rejected", "notOk", "ok"} : FetchSettles(t, r))
        /\ WF_vars(t <= Len(turns) /\ \E r \in {"rejected", "text", "empty"} : BodySettles(t, r))
        /\ WF_vars(t <= Len(turns) /\ \E added \in BOOLEAN : ReplyPostSettles(t, added))

SpecChatFair == SpecChat /\ FairChat

(***************************************************************************)
(* Reading a container back: the decoder the properties are stated with.   *)
(***************************************************************************)
ReadU16(bytes, offset) == bytes[offset + 1] + Two8 * bytes[offset + 2]
ReadU32(bytes, offset) == Num(ReadU16(bytes, offset + 2), ReadU16(bytes, offset))
ReadI16(bytes, offset) == ToInt16(ReadU16(bytes, offset))
ReadAscii(bytes, offset) == SubSeq(bytes, offset + 1, offset + 4)
DecodeSamples(bytes) ==
    [i \in 1..((Len(bytes) - HeaderSize) \div 2) |->
        ReadI16(bytes, HeaderSize + 2 * (i - 1))]

AsciiRIFF == <<82, 73, 70, 70>>
AsciiWAVE == <<87, 65, 86, 69>>
AsciiFmt  == <<102, 109, 116, 32>>
AsciiData == <<100, 97, 116, 97>>

Called == blob # NoBlob
Returned == Called /\ blob.type = "audio/wav"
SamplesIn == callArgs.pcmData
RateIn == callArgs.sampleRate

\* C1: for every n and every sequence of n signed 16-bit samples, with any
\* sample rate, pcmToWav returns a buffer of exactly 44 + 2n bytes; for the
\* empty sequence that is 44 bytes with a data-length field of 0.
C1_OutputLength ==
    Called =>
        /\ Returned
        /\ Len(blob.bytes) = 44 + 2 * Len(SamplesIn)
        /\ Len(SamplesIn) = 0 =>
              Len(blob.bytes) = 44 /\ ReadU32(blob.bytes, 40) = Zero

C1_Witness ==
    /\ Returned /\ Len(SamplesIn) = 0 /\ Len(blob.bytes) = 44
    /\ RateIn = Pow2_32

\* C2: the total-size field at bytes 4-7 equals 36 + 2n, which is the output
\* length minus 8, and the data-length field at bytes 40-43 equals 2n.
C2_SizeFields ==
    Called =>
        /\ Returned
        /\ ReadU32(blob.bytes, 4) = NumOfInt(36 + 2 * Len(SamplesIn))
        /\ ReadU32(blob.bytes, 4) = NumOfInt(Len(blob.bytes) - 8)
        /\ ReadU32(blob.bytes, 40) = NumOfInt(2 * Len(SamplesIn))

C2_Witness ==
    /\ Returned /\ Len(SamplesIn) = 3
    /\ ReadU32(blob.bytes, 4) = Num(0, 42) /\ ReadU32(blob.bytes, 40) = Num(0, 6)

\* C3 as stated: for every sample sequence and every positive integer sample
\* rate, decoding the output yields the original samples and the original rate.
C3_RoundTripAnyRate ==
    (Called /\ RateIn # Zero) =>
        /\ Returned
        /\ DecodeSamples(blob.bytes) = SamplesIn
        /\ ReadU32(blob.bytes, 24) = RateIn

\* C3 amended: for every sample sequence and every positive integer sample
\* rate below 2^32, decoding the output yields the original samples, in order,
\* and the original rate; at any rate at all the samples are read back
\* unchanged and the rate field holds the rate modulo 2^32.
C3_RoundTrip ==
    Called =>
        /\ Returned
        /\ DecodeSamples(blob.bytes) = SamplesIn
        /\ NumLess(RateIn, Pow2_32) => ReadU32(blob.bytes, 24) = RateIn
        /\ ReadU32(blob.bytes, 24) = Num(RateIn.hi % Two16, RateIn.lo)

C3_Witness ==
    /\ Returned
    /\ SamplesIn = <<0, 32767, -32768, 1000>>
    /\ RateIn = Num(0, 24000)
    /\ Len(blob.bytes) = 52
    /\ ReadU32(blob.bytes, 24) = Num(0, 24000)
    /\ ReadU32(blob.bytes, 40) = Num(0, 8)
    /\ DecodeSamples(blob.bytes) = <<0, 32767, -32768, 1000>>

FixedHeaderFields(bytes) ==
    /\ ReadAscii(bytes, 0) = AsciiRIFF
    /\ ReadAscii(bytes, 8) = AsciiWAVE
    /\ ReadAscii(bytes, 12) = AsciiFmt
    /\ ReadU32(bytes, 16) = Num(0, 16)
    /\ ReadU16(bytes, 20) = 1
    /\ ReadU16(bytes, 22) = 1
    /\ ReadU16(bytes, 32) = 2
    /\ ReadU16(bytes, 34) = 16
    /\ ReadAscii(bytes, 36) = AsciiData

\* C4 as stated: for every positive integer sample rate the header holds the
\* fixed fields, the rate at 24-27 and twice the rate at 28-31.
C4_HeaderAnyRate ==
    (Called /\ RateIn # Zero) =>
        /\ Returned
        /\ FixedHeaderFields(blob.bytes)
        /\ ReadU32(blob.bytes, 24) = RateIn
        /\ ReadU32(blob.bytes, 28) = NumTimes(RateIn, 2)
        /\ ReadU32(blob.bytes, 28) = NumTimes(ReadU32(blob.bytes, 24), 2)

\* C4 amended: the fixed fields are written for every sample rate; for every
\* positive integer sample rate below 2^31 bytes 24-27 hold the rate and
\* bytes 28-31 hold exactly twice the rate, which is twice the decoded rate
\* field.  From 2^31 on the byte-rate field holds twice the rate modulo 2^32.
C4_Header ==
    Called =>
        /\ Returned
        /\ FixedHeaderFields(blob.bytes)
        /\ NumLess(RateIn, Pow2_31) =>
              /\ ReadU32(blob.bytes, 24) = RateIn
              /\ ReadU32(blob.bytes, 28) = NumTimes(RateIn, 2)
              /\ ReadU32(blob.bytes, 28) = NumTimes(ReadU32(blob.bytes, 24), 2)
        /\ ReadU32(blob.bytes, 28).lo = NumTimes(RateIn, 2).lo
        /\ ReadU32(blob.bytes, 28).hi = NumTimes(RateIn, 2).hi % Two16

C4_Witness ==
    /\ Returned
    /\ RateIn = Num(32767, 65535)
    /\ ReadU32(blob.bytes, 28) = Num(65535, 65534)
    /\ Len(SamplesIn) = 2

\* C5: a call with sample rate 0 raises no error; bytes 24-27 and 28-31 both
\* decode to 0 and every other byte is what the call writes for the same
\* samples at any other rate.
C5_ZeroRate ==
    (Called /\ RateIn = Zero) =>
        /\ Returned
        /\ ReadU32(blob.bytes, 24) = Zero
        /\ ReadU32(blob.bytes, 28) = Zero
        /\ Len(blob.bytes) = 44 + 2 * Len(SamplesIn)
        /\ \A rate \in Rates :
              LET other == pcmToWav(SamplesIn, rate).blob.bytes IN
              \A k \in 1..Len(blob.bytes) :
                  (k < 25 \/ k > 32) => blob.bytes[k] = other[k]
        /\ DecodeSamples(blob.bytes) = SamplesIn

C5_Witness ==
    /\ Returned /\ RateIn = Zero /\ SamplesIn = <<-1, 1000>>
    /\ ReadU32(blob.bytes, 24) = Zero /\ ReadU32(blob.bytes, 28) = Zero

\* C6: a call leaves the caller's sample buffer and sample rate as they were
\* when the call was made and leaves every other part of the program state
\* alone, and a call made with the arguments of the first call, whatever
\* calls were made in between, returns a byte-identical blob.
C6_Pure ==
    Called =>
        /\ pcmData = callArgs.pcmData
        /\ sampleRate = callArgs.sampleRate
        /\ TtsIdle /\ ChatIdle
        /\ (callArgs.pcmData = firstCall.pcmData
              /\ callArgs.sampleRate = firstCall.sampleRate)
           => blob = firstCall.blob

C6_Witness ==
    /\ Called /\ nCalls = 3
    /\ callArgs.pcmData = <<-32768>>
    /\ firstCall.pcmData = <<-32768>>
    /\ callArgs.sampleRate = firstCall.sampleRate
    /\ blob = firstCall.blob
    /\ pcmData = <<-32768>>

(***************************************************************************)
(* The parameters of a MIME type, as the claims about handleTtsClick       *)
(* speak of them: the ";"-separated parts after the type.                  *)
(***************************************************************************)
ParamStarts(mimeType) == {p \in 1..Len(mimeType) : mimeType[p] = ";"}
ParamEnd(mimeType, p) ==
    LET later == {q \in ParamStarts(mimeType) : q > p}
    IN  IF later = {} THEN Len(mimeType) ELSE Minimum(later) - 1
ParamAt(mimeType, p) == SubSeq(mimeType, p + 1, ParamEnd(mimeType, p))
IsRateParam(param) ==
    /\ startsWith(param, RateEq)
    /\ Len(param) > Len(RateEq)
    /\ \A k \in (Len(RateEq) + 1)..Len(param) : IsDigit(param[k])
RateParams(mimeType) ==
    {p \in ParamStarts(mimeType) : IsRateParam(ParamAt(mimeType, p))}
DeclaredRate(mimeType) ==
    IF RateParams(mimeType) = {} THEN Num(0, 24000)
    ELSE LET param == ParamAt(mimeType, Minimum(RateParams(mimeType)))
         IN  parseInt(SubSeq(param, Len(RateEq) + 1, Len(param)))

TtsDone == ttsPc = "done"
CarriesAudio == TtsDone /\ ttsPart.kind = "ok" /\ Truthy(ttsPart.data)

\* C7: the sample rate handleTtsClick passes to pcmToWav is the integer of
\* the rate=<integer> parameter of the MIME type, and 24000 when the MIME
\* type has no such parameter; no other value is passed.
C7_RateFromParameter ==
    (TtsDone /\ ttsOutcome = "played") =>
        ttsPassed.sampleRate = DeclaredRate(ttsPart.mimeType)

\* The data is base64 of whole 16-bit samples and a MIME type is given.
CarriesSamples ==
    /\ CarriesAudio
    /\ atob(ttsPart.data) # DOMException
    /\ Len(atob(ttsPart.data)) % 2 = 0
    /\ Truthy(ttsPart.mimeType)

\* C8 as stated: every response carrying audio data, whatever its MIME type
\* and rate parameter, is encoded and handed to playback, at 24000 when the
\* rate is absent or not positive, and no error is reported.  (Stated here
\* for the responses whose data are whole samples and that name a MIME type.)
C8_SilentFallback ==
    CarriesSamples =>
        /\ ttsOutcome = "played"
        /\ ttsBlob.type = "audio/wav"
        /\ (MatchPositions(ttsPart.mimeType) = {}
              \/ parseInt(rateMatch(ttsPart.mimeType)) = Zero)
           => ttsPassed.sampleRate = Num(0, 24000)

\* C8 amended: a response carrying audio data is encoded and handed to
\* playback only when its MIME type starts with "audio/L16" and its data is
\* base64 of an even number of bytes; the rate is 24000 only when no "rate="
\* followed by a digit occurs in the MIME type, and otherwise the number
\* after the first such "rate=", 0 included.  A MIME type that is absent or
\* does not start with "audio/L16" is reported as invalid audio data, and
\* data that is not base64 or has an odd number of bytes is reported as a
\* caught error; nothing is played in either case.
C8_TtsOutcome ==
    CarriesAudio =>
        LET mime == ttsPart.mimeType
            bytes == atob(ttsPart.data)
        IN  IF Truthy(mime) /\ startsWith(mime, AudioL16)
            THEN IF bytes # DOMException /\ Len(bytes) % 2 = 0
                 THEN /\ ttsOutcome = "played"
                      /\ ttsBlob.type = "audio/wav"
                      /\ Len(ttsPassed.pcmData) * 2 = Len(bytes)
                      /\ SubSeq(ttsBlob.bytes, HeaderSize + 1, Len(ttsBlob.bytes)) = bytes
                      /\ DecodeSamples(ttsBlob.bytes) = ttsPassed.pcmData
                      /\ ReadU32(ttsBlob.bytes, 24) = ToUint32(ttsPassed.sampleRate)
                      /\ MatchPositions(mime) = {} =>
                            ttsPassed.sampleRate = Num(0, 24000)
                      /\ MatchPositions(mime) # {} =>
                            ttsPassed.sampleRate =
                               parseInt(DigitRun(mime, Minimum(MatchPositions(mime)) + 5))
                 ELSE ttsOutcome = "caught" /\ ttsBlob = NoBlob
            ELSE ttsOutcome = "invalid" /\ ttsBlob = NoBlob

C8_Witness ==
    /\ CarriesAudio
    /\ ttsPart.mimeType = AudioL16 \o <<";", "r", "a", "t", "e", "=", "0">>
    /\ ttsPart.data = <<"/", "/", "/">>
    /\ ttsOutcome = "played"
    /\ ttsPassed = [pcmData |-> <<-1>>, sampleRate |-> Zero]
    /\ ReadU32(ttsBlob.bytes, 28) = Zero

AllSettled == \A t \in 1..Len(turns) : turns[t].pc = "done"

\* C9: handleSendMessage never starts a getGeminiResponse call while an
\* earlier handleSendMessage turn of the same client is still unfinished.
C9_SingleInFlight ==
    \A t \in 1..Len(turns) :
        InGemini(t) => \A earlier \in 1..(t - 1) : ~Unfinished(earlier)

\* C10: every getGeminiResponse call that has completed has made exactly one
\* attempt to post a message as 'Gemini' (the model's text, the fixed
\* "could not generate" text or the error text); the step that completes it
\* leaves isAiProcessing false; once every started turn has completed
\* isAiProcessing is false; and, the pending requests settling, a set
\* isAiProcessing is always followed by a cleared one, so the form is not
\* left disabled.
C10_ReplyAndRelease ==
    /\ [](\A t \in 1..Len(turns) :
             /\ turns[t].pc = "done" =>
                   /\ turns[t].geminiPosts = 1
                   /\ turns[t].reply \in
                         {"model text",
                          "Sorry, I couldn't generate a response at this time.",
                          "Error contacting AI service."}
             /\ turns[t].pc \in {"postingUser", "fetching", "readingText", "readingJson"}
                   => turns[t].geminiPosts = 0
             /\ turns[t].pc = "postingReply" => turns[t].geminiPosts = 1)
    /\ [](AllSettled => ~isAiProcessing)
    /\ [][\A t \in 1..Len(turns) :
             (turns[t].pc # "done" /\ turns'[t].pc = "done") => ~isAiProcessing']_vars
    /\ isAiProcessing ~> ~isAiProcessing

C10_Witness ==
    /\ Len(turns) = 2
    /\ AllSettled
    /\ turns[1].reply = "Error contacting AI service."
    /\ turns[2].reply = "model text"
    /\ turns[1].geminiPosts = 1 /\ turns[2].geminiPosts = 1
    /\ chat = <<[userId |-> Uid, text |-> "user"]>>
    /\ ~isAiProcessing

====
